---- MODULE Spec2Model ----
(***************************************************************************)
(* A model of GasOptimizationTracer (internal/tracer/gas_tracer.go): the   *)
(* tracer's fields, one operator per EVMLogger handler, and drivers that   *)
(* deliver events to it.                                                   *)
(*                                                                         *)
(* Conventions.                                                            *)
(*  - The tracer is a record with the fields of the Go struct; a handler   *)
(*    is an operator from the tracer (and the handler's arguments) to the  *)
(*    tracer it leaves behind.                                             *)
(*  - A Go map is a function whose DOMAIN is the set of keys present; a    *)
(*    missing key reads as the zero value (MapGet).                        *)
(*  - uint64 values are naturals far below 2^64: every sum the drivers can *)
(*    reach is bounded by the event budget, so no addition wraps.          *)
(*  - A 256-bit stack word is [hi, lo] with value hi * 2^64 + lo, so that  *)
(*    Uint64() (the low 64 bits) differs from the full value.              *)
(*  - An opcode is identified with its mnemonic (op.String()).             *)
(*  - The pc handed to formatPC is the uint64 as its 8 bytes, so that the   *)
(*    conversion int64(pc) is modelled for every value up to 2^64 - 1.     *)
(*  - A serialized JSON object is the sequence of its keys as written and  *)
(*    the values under them; the rendering of numbers is not modelled.     *)
(*  - The mutex is the goroutine that holds it; only SpecConcurrent takes  *)
(*    the steps of Lock and Unlock apart from the body of a handler.       *)
(***************************************************************************)
EXTENDS Integers, Sequences, FiniteSets, TLC

VARIABLES
    t,        \* the tracer (*GasOptimizationTracer)
    run2,     \* a second tracer, fed the same events (specification SpecTwoRuns)
    nEvents,  \* history: number of events delivered and reader calls made so far
    ended,    \* history: number of CaptureEnd calls handled so far
    reads,    \* history: slot -> number of SLOAD Steps that carried that slot
    nSteps,   \* history: number of Steps delivered
    nCallSteps, \* history: number of call-family Steps delivered
    frames,   \* history: depth before each Enter that has no Exit yet (innermost first)
    returned, \* history: the deepest nesting a matching Exit has returned from
    writes,   \* history: slot -> number of SSTORE Steps that carried that slot
    nMemorySteps, \* history: number of MLOAD/MSTORE/MSTORE8 Steps delivered
    costSum,  \* history: sum of the costs of the Steps delivered
    usageSum, \* history: sum of the gas usages reported by the Exits delivered
    nFaults,  \* history: number of Fault events delivered
    lastStep, \* history: the arguments of the last Step delivered (<<>> before the first)
    report,   \* what GetReport returned, call by call
    listed,   \* what GetOptimizations returned, call by call
    mu,       \* the tracer's mutex: the goroutine holding it, or Unlocked
    calls,    \* per goroutine, the handler call it is in (specification SpecConcurrent)
    pcs,      \* the arguments handed to formatPC (specification SpecFormat)
    locations \* the strings formatPC returned for them

vars == <<t, run2, nEvents, ended, reads, nSteps, nCallSteps, frames, returned,
          writes, nMemorySteps, costSum, usageSum, nFaults, lastStep, report, listed, mu,
          calls, pcs, locations>>

---------------------------------------------------------------------------
(* Bounds of the drivers *)

MaxEvents == 3       \* events delivered by the unconstrained driver (Spec, SpecTwoRuns)
MaxStorageSteps == 4 \* Steps delivered by the storage driver (SpecStorage)
MaxMemorySteps == 2  \* Steps delivered by the memory driver (SpecMemory)
MaxCalls == 6        \* call-family Steps delivered by the call driver (SpecCalls)
MaxNest == 10        \* open frames of the nested driver (SpecNested)
MaxNestedSteps == 2  \* Steps delivered by the nested driver
MaxAllEvents == 4    \* events and reader calls of the driver of every handler (SpecAll)
MaxOperandSteps == 2 \* Steps delivered by the operand driver (SpecOperands)
MaxConcurrentCalls == 3 \* handler and reader calls of the two goroutines (SpecConcurrent)
MaxSmallPC == 300    \* formatPC is applied to every pc up to this one (SpecFormat)
MaxExpensiveSteps == 2 \* Steps delivered by the cost driver (SpecExpensive)

---------------------------------------------------------------------------
(* Go and go-ethereum helpers *)

\* a nil pointer (no word has a negative part)
Nil == [hi |-> -1, lo |-> -1]

HashLength == 32
AddressLength == 20

EmptyMap == <<>>

MapGet(m, k) == IF k \in DOMAIN m THEN m[k] ELSE 0

MapPut(m, k, v) == [x \in (DOMAIN m) \cup {k} |-> IF x = k THEN v ELSE m[x]]

\* m[k] += d
MapAdd(m, k, d) == MapPut(m, k, MapGet(m, k) + d)

\* big.Int.Bytes / uint256.Int.Bytes of a natural: minimal big-endian bytes
RECURSIVE NatBytes(_)
NatBytes(n) == IF n = 0 THEN <<>> ELSE Append(NatBytes(n \div 256), n % 256)

Zeros(n) == [i \in 1..n |-> 0]

\* left-pad (or crop from the left) to exactly n bytes
SetBytes(b, n) ==
    IF Len(b) > n THEN SubSeq(b, Len(b) - n + 1, Len(b)) ELSE Zeros(n - Len(b)) \o b

\* uint256.Int.Bytes(): minimal big-endian bytes of hi * 2^64 + lo
WordBytes(w) == IF w.hi = 0 THEN NatBytes(w.lo) ELSE NatBytes(w.hi) \o SetBytes(NatBytes(w.lo), 8)

\* uint256.Int.Uint64(): the low 64 bits
Uint64(w) == w.lo

BytesToHash(b) == SetBytes(b, HashLength)

BytesToAddress(b) == SetBytes(b, AddressLength)

HexDigit(n) == SubSeq("0123456789abcdef", n + 1, n + 1)

RECURSIVE Bytes2Hex(_)
Bytes2Hex(b) ==
    IF b = <<>> THEN ""
    ELSE HexDigit(Head(b) \div 16) \o HexDigit(Head(b) % 16) \o Bytes2Hex(Tail(b))

\* common.Hash.Hex()
HashHex(h) == "0x" \o Bytes2Hex(h)

\* common.Address.Hex() (the EIP-55 letter casing is not modelled)
AddressHex(a) == "0x" \o Bytes2Hex(a)

\* vm.Stack.Back(n): the n-th word from the top; the stack is a sequence
\* whose last element is the top.  An absent operand is the nil that the
\* handler tests for.
Back(stack, n) == IF n < Len(stack) THEN stack[Len(stack) - n] ELSE Nil

\* a uint64 as its 8 bytes, most significant first: the value n
U64(n) == SetBytes(NatBytes(n), 8)

RECURSIVE StripZeros(_)
StripZeros(b) == IF b # <<>> /\ Head(b) = 0 THEN StripZeros(Tail(b)) ELSE b

\* b + 1 modulo 2^(8 * Len(b))
RECURSIVE Increment(_)
Increment(b) ==
    IF b = <<>> THEN <<>>
    ELSE LET front == SubSeq(b, 1, Len(b) - 1) IN
         IF b[Len(b)] = 255 THEN Increment(front) \o <<0>>
         ELSE front \o <<b[Len(b)] + 1>>

\* -b modulo 2^64
Negate(b) == Increment([i \in 1..Len(b) |-> 255 - b[i]])

\* big.NewInt(int64(pc)): int64(pc) reads the 64 bits as two's complement,
\* and the big.Int keeps a sign and the magnitude
BigNewInt(pc) ==
    IF pc[1] >= 128 THEN [neg |-> TRUE, abs |-> Negate(pc)]
    ELSE [neg |-> FALSE, abs |-> pc]

\* big.Int.Bytes(): the magnitude, big-endian, without leading zero bytes
BigBytes(x) == StripZeros(x.abs)

formatPC(pc) == "0x" \o Bytes2Hex(BigBytes(BigNewInt(pc)))

\* float64(gasUsed) / float64(total) * 100 as the fraction num / den; with
\* den = 0 the float is not a number: +Inf when num > 0, NaN when num = 0
Percentage(gasUsed, total) == [num |-> gasUsed * 100, den |-> total]

---------------------------------------------------------------------------
(* Opcode categories of the switch in CaptureState *)

MemoryFamily == {"MLOAD", "MSTORE", "MSTORE8"}
CallFamily == {"CALL", "STATICCALL", "DELEGATECALL", "CALLCODE"}
CreateFamily == {"CREATE", "CREATE2"}
LogFamily == {"LOG0", "LOG1", "LOG2", "LOG3", "LOG4"}

---------------------------------------------------------------------------
(* The tracer *)

NewGasOptimizationTracer ==
    [ StorageReads  |-> EmptyMap,
      StorageWrites |-> EmptyMap,
      MemoryOps     |-> <<>>,
      CallOps       |-> <<>>,
      Loops         |-> <<>>,
      ExpensiveOps  |-> <<>>,
      GasPerOpcode  |-> EmptyMap,
      Stack         |-> <<>>,
      Memory        |-> <<>>,
      PC            |-> 0,
      Gas           |-> 0,
      Depth         |-> 0,
      TotalGasUsed  |-> 0,
      Optimizations |-> <<>> ]

Optimization(type, severity, description, location, gasSavings, details) ==
    [ Type |-> type, Severity |-> severity, Description |-> description,
      Location |-> location, GasSavings |-> gasSavings, Details |-> details ]

\* CaptureStart that begins from a fresh tracer
CaptureStartFresh(tr, gas) == [NewGasOptimizationTracer EXCEPT !.Gas = gas]

CaptureStart(tr, gas) == [tr EXCEPT !.Gas = gas, !.Depth = 0]

\* TrackSload with the threshold one read too early
TrackSloadFromSecondRead(tr, pc, stack) ==
    LET key == Back(stack, 0) IN
    IF key # Nil
    THEN LET keyHash == BytesToHash(WordBytes(key))
             count == MapGet(tr.StorageReads, keyHash) + 1
             t1 == [tr EXCEPT !.StorageReads = MapPut(@, keyHash, count)]
         IN  IF count >= 2
             THEN [t1 EXCEPT !.Optimizations = Append(@,
                     Optimization("redundant_sload", "high",
                         "Multiple SLOAD operations for the same storage slot",
                         formatPC(U64(pc)), (count - 1) * 100,
                         [storage_key |-> HashHex(keyHash), read_count |-> count]))]
             ELSE t1
    ELSE tr

\* case vm.SLOAD
TrackSload(tr, pc, stack) ==
    LET key == Back(stack, 0) IN
    IF key # Nil
    THEN LET keyHash == BytesToHash(WordBytes(key))
             count == MapGet(tr.StorageReads, keyHash) + 1
             t1 == [tr EXCEPT !.StorageReads = MapPut(@, keyHash, count)]
         IN  IF count > 2
             THEN [t1 EXCEPT !.Optimizations = Append(@,
                     Optimization("redundant_sload", "high",
                         "Multiple SLOAD operations for the same storage slot",
                         formatPC(U64(pc)), (count - 1) * 100,
                         [storage_key |-> HashHex(keyHash), read_count |-> count]))]
             ELSE t1
    ELSE tr

\* TrackSstore that marks the slot as written instead of counting the writes
TrackSstoreMarksSlot(tr, stack) ==
    LET key == Back(stack, 0) IN
    IF key # Nil
    THEN [tr EXCEPT !.StorageWrites = MapPut(@, BytesToHash(WordBytes(key)), 1)]
    ELSE tr

\* case vm.SSTORE
TrackSstore(tr, stack) ==
    LET key == Back(stack, 0) IN
    IF key # Nil
    THEN [tr EXCEPT !.StorageWrites = MapAdd(@, BytesToHash(WordBytes(key)), 1)]
    ELSE tr

\* case vm.MLOAD, vm.MSTORE, vm.MSTORE8
TrackMemoryOp(tr, pc, op, cost, memSize, depth) ==
    [tr EXCEPT !.MemoryOps = Append(@,
        [PC |-> pc, Op |-> op, Size |-> memSize, Gas |-> cost, Depth |-> depth])]

\* case vm.CALL, vm.STATICCALL, vm.DELEGATECALL, vm.CALLCODE
TrackCall(tr, pc, op, gas, cost, stack, depth) ==
    LET callOp == [PC |-> pc, Op |-> op, To |-> Zeros(AddressLength), Value |-> Nil,
                   Gas |-> gas, GasUsed |-> cost, Success |-> FALSE, Depth |-> depth]
        gasLimit == Back(stack, 0)
        addr == Back(stack, 1)
    IN  IF gasLimit # Nil /\ addr # Nil
        THEN LET to == BytesToAddress(WordBytes(addr))
                 t1 == IF Uint64(gasLimit) = gas - (gas \div 64)
                       THEN [tr EXCEPT !.Optimizations = Append(@,
                               Optimization("gas_forwarding", "low",
                                   "Forwarding all available gas to external call",
                                   formatPC(U64(pc)), 0,
                                   [call_type |-> op, to |-> AddressHex(to)]))]
                       ELSE tr
             IN  [t1 EXCEPT !.CallOps = Append(@, [callOp EXCEPT !.To = to])]
        ELSE [tr EXCEPT !.CallOps = Append(@, callOp)]

\* the appends to ExpensiveOps
TrackExpensive(tr, pc, op, cost, description, depth) ==
    [tr EXCEPT !.ExpensiveOps = Append(@,
        [PC |-> pc, Op |-> op, Gas |-> cost, Description |-> description, Depth |-> depth])]

\* TrackLog with the threshold included
TrackLogAtThreshold(tr, pc, op, cost, depth) ==
    IF cost >= 1000
    THEN TrackExpensive(tr, pc, op, cost, "Large LOG operation", depth)
    ELSE tr

\* case vm.LOG0, vm.LOG1, vm.LOG2, vm.LOG3, vm.LOG4
TrackLog(tr, pc, op, cost, depth) ==
    IF cost > 1000
    THEN TrackExpensive(tr, pc, op, cost, "Large LOG operation", depth)
    ELSE tr

\* case vm.KECCAK256
TrackKeccak(tr, pc, op, cost, depth) ==
    IF cost > 500
    THEN TrackExpensive(tr, pc, op, cost, "Expensive KECCAK256 operation", depth)
    ELSE tr

\* TrackMemoryExpansion with the threshold included
TrackMemoryExpansionAtThreshold(tr, pc, memSize) ==
    IF memSize > 0 /\ memSize >= 10000
    THEN [tr EXCEPT !.Optimizations = Append(@,
            Optimization("memory_expansion", "medium", "Large memory expansion detected",
                formatPC(U64(pc)), 0, [memory_size |-> memSize]))]
    ELSE tr

\* "Track memory expansion", after the switch
TrackMemoryExpansion(tr, pc, memSize) ==
    IF memSize > 0 /\ memSize > 10000
    THEN [tr EXCEPT !.Optimizations = Append(@,
            Optimization("memory_expansion", "medium", "Large memory expansion detected",
                formatPC(U64(pc)), 0, [memory_size |-> memSize]))]
    ELSE tr

\* RecordPosition that leaves the depth to Enter and Exit
RecordPositionKeepsDepth(tr, pc, gas, depth) == [tr EXCEPT !.PC = pc, !.Gas = gas]

\* t.PC = pc; t.Gas = gas; t.Depth = depth
RecordPosition(tr, pc, gas, depth) == [tr EXCEPT !.PC = pc, !.Gas = gas, !.Depth = depth]

\* stack and memSize are scope.Stack and len(scope.Memory.Data())
CaptureState(tr, pc, op, gas, cost, stack, memSize, depth) ==
    LET t1 == [RecordPosition(tr, pc, gas, depth) EXCEPT
                         !.TotalGasUsed = @ + cost,
                         !.GasPerOpcode = MapAdd(@, op, cost)]
        t2 == CASE op = "SLOAD" -> TrackSload(t1, pc, stack)
                [] op = "SSTORE" -> TrackSstore(t1, stack)
                [] op \in MemoryFamily -> TrackMemoryOp(t1, pc, op, cost, memSize, depth)
                [] op \in CallFamily -> TrackCall(t1, pc, op, gas, cost, stack, depth)
                [] op \in CreateFamily ->
                     TrackExpensive(t1, pc, op, cost, "Contract creation is expensive", depth)
                [] op = "SELFDESTRUCT" ->
                     TrackExpensive(t1, pc, op, cost, "SELFDESTRUCT is very expensive", depth)
                [] op = "JUMPDEST" -> t1
                [] op \in LogFamily -> TrackLog(t1, pc, op, cost, depth)
                [] op = "KECCAK256" -> TrackKeccak(t1, pc, op, cost, depth)
                [] OTHER -> t1
    IN  TrackMemoryExpansion(t2, pc, memSize)

CaptureEnter(tr) == [tr EXCEPT !.Depth = @ + 1]

\* CaptureExit without the decrement
CaptureExitKeepsDepth(tr, gasUsed) == [tr EXCEPT !.TotalGasUsed = @ + gasUsed]

\* CaptureExit that drops the usage reported
CaptureExitDropsUsage(tr, gasUsed) == [tr EXCEPT !.Depth = @ - 1]

CaptureExit(tr, gasUsed) == [tr EXCEPT !.Depth = @ - 1, !.TotalGasUsed = @ + gasUsed]

\* AnalyzeOpcodes with the threshold included
RECURSIVE AnalyzeOpcodesAtThreshold(_, _)
AnalyzeOpcodesAtThreshold(tr, order) ==
    IF order = <<>> THEN tr
    ELSE LET opcode == Head(order)
             gasUsed == tr.GasPerOpcode[opcode]
             t1 == IF gasUsed >= tr.TotalGasUsed \div 10
                   THEN [tr EXCEPT !.Optimizations = Append(@,
                           Optimization("expensive_opcode", "medium",
                               "Opcode consumes significant gas", "multiple", 0,
                               [opcode |-> opcode, gas_used |-> gasUsed,
                                percentage |-> Percentage(gasUsed, tr.TotalGasUsed)]))]
                   ELSE tr
         IN  AnalyzeOpcodesAtThreshold(t1, Tail(order))

\* "Analyze opcode usage": order is the order in which range visits the keys
\* of GasPerOpcode, which Go leaves unspecified
RECURSIVE AnalyzeOpcodes(_, _)
AnalyzeOpcodes(tr, order) ==
    IF order = <<>> THEN tr
    ELSE LET opcode == Head(order)
             gasUsed == tr.GasPerOpcode[opcode]
             t1 == IF gasUsed > tr.TotalGasUsed \div 10
                   THEN [tr EXCEPT !.Optimizations = Append(@,
                           Optimization("expensive_opcode", "medium",
                               "Opcode consumes significant gas", "multiple", 0,
                               [opcode |-> opcode, gas_used |-> gasUsed,
                                percentage |-> Percentage(gasUsed, tr.TotalGasUsed)]))]
                   ELSE tr
         IN  AnalyzeOpcodes(t1, Tail(order))

\* AnalyzeCalls with the threshold included
AnalyzeCallsFromFive(tr) ==
    IF Len(tr.CallOps) >= 5
    THEN [tr EXCEPT !.Optimizations = Append(@,
            Optimization("multiple_calls", "medium",
                "Multiple external calls detected - consider batching", "multiple",
                Len(tr.CallOps) * 2100, [call_count |-> Len(tr.CallOps)]))]
    ELSE tr

\* "Analyze call patterns"
AnalyzeCalls(tr) ==
    IF Len(tr.CallOps) > 5
    THEN [tr EXCEPT !.Optimizations = Append(@,
            Optimization("multiple_calls", "medium",
                "Multiple external calls detected - consider batching", "multiple",
                Len(tr.CallOps) * 2100, [call_count |-> Len(tr.CallOps)]))]
    ELSE tr

\* analyzePatterns with its two analyses in the other order
analyzePatternsCallsFirst(tr, order) == AnalyzeOpcodes(AnalyzeCalls(tr), order)

analyzePatterns(tr, order) == AnalyzeCalls(AnalyzeOpcodes(tr, order))

\* CaptureEnd that analyses against the running total and stores gasUsed after
CaptureEndAnalyzesFirst(tr, gasUsed, order) ==
    [analyzePatterns(tr, order) EXCEPT !.TotalGasUsed = gasUsed]

CaptureEnd(tr, gasUsed, order) == analyzePatterns([tr EXCEPT !.TotalGasUsed = gasUsed], order)

\* CaptureFault that leaves the frame that failed
CaptureFaultLeavesFrame(tr) == [tr EXCEPT !.Depth = @ - 1]

CaptureFault(tr) == tr

CaptureTxStart(tr, gasLimit) == [tr EXCEPT !.Gas = gasLimit]

CaptureTxEnd(tr, restGas) == tr

GetOptimizations(tr) == tr.Optimizations

\* encoding/json: the characters of the keys, in byte order
Alphabet == "0123456789ABCDEFGHIJKLMNOPQRSTUVWXYZ_abcdefghijklmnopqrstuvwxyz"

Ranks ==
    [c \in {SubSeq(Alphabet, i, i) : i \in 1..Len(Alphabet)} |->
        CHOOSE i \in 1..Len(Alphabet) : SubSeq(Alphabet, i, i) = c]

Rank(c) == Ranks[c]

RECURSIVE StrLess(_, _)
StrLess(a, b) ==
    IF a = "" THEN b # ""
    ELSE IF b = "" THEN FALSE
    ELSE LET ra == Rank(SubSeq(a, 1, 1))
             rb == Rank(SubSeq(b, 1, 1))
         IN  IF ra # rb THEN ra < rb
             ELSE StrLess(SubSeq(a, 2, Len(a)), SubSeq(b, 2, Len(b)))

RECURSIVE SortedKeys(_)
SortedKeys(S) ==
    IF S = {} THEN <<>>
    ELSE LET first == CHOOSE k \in S : \A x \in S \ {k} : StrLess(k, x)
         IN  <<first>> \o SortedKeys(S \ {first})

\* a JSON object is its keys in the order they are written, and their values;
\* encoding/json writes the keys of a map sorted
MarshalMap(m) == [keys |-> SortedKeys(DOMAIN m), vals |-> m]

\* encoding/json writes the fields of a struct in the order of declaration,
\* under the name of the field when it has no tag
MarshalOptimization(o) ==
    [keys |-> <<"Type", "Severity", "Description", "Location", "GasSavings", "Details">>,
     vals |-> [o EXCEPT !.Details = MarshalMap(@)]]

\* encoding/json refuses a float64 that is not finite
UnsupportedValue(tr) ==
    \E i \in 1..Len(tr.Optimizations) :
        /\ "percentage" \in DOMAIN tr.Optimizations[i].Details
        /\ tr.Optimizations[i].Details.percentage.den = 0

\* the empty string
EmptyText == [keys |-> <<>>, vals |-> <<>>]

\* GetReport that counts a slot once more when it was read again
GetReportCountsRereads(tr) ==
    IF UnsupportedValue(tr)
    THEN [text |-> EmptyText, err |-> "json: unsupported value"]
    ELSE [text |-> MarshalMap(
              [total_gas_used    |-> tr.TotalGasUsed,
               storage_reads     |-> Cardinality(DOMAIN tr.StorageReads)
                                       + Cardinality({k \in DOMAIN tr.StorageReads :
                                                         tr.StorageReads[k] > 1}),
               storage_writes    |-> Cardinality(DOMAIN tr.StorageWrites),
               memory_operations |-> Len(tr.MemoryOps),
               call_operations   |-> Len(tr.CallOps),
               expensive_ops     |-> Len(tr.ExpensiveOps),
               optimizations     |-> [i \in 1..Len(tr.Optimizations) |->
                                         MarshalOptimization(tr.Optimizations[i])],
               gas_by_opcode     |-> MarshalMap(tr.GasPerOpcode)]),
          err |-> "nil"]

GetReport(tr) ==
    IF UnsupportedValue(tr)
    THEN [text |-> EmptyText, err |-> "json: unsupported value"]
    ELSE [text |-> MarshalMap(
              [total_gas_used    |-> tr.TotalGasUsed,
               storage_reads     |-> Cardinality(DOMAIN tr.StorageReads),
               storage_writes    |-> Cardinality(DOMAIN tr.StorageWrites),
               memory_operations |-> Len(tr.MemoryOps),
               call_operations   |-> Len(tr.CallOps),
               expensive_ops     |-> Len(tr.ExpensiveOps),
               optimizations     |-> [i \in 1..Len(tr.Optimizations) |->
                                         MarshalOptimization(tr.Optimizations[i])],
               gas_by_opcode     |-> MarshalMap(tr.GasPerOpcode)]),
          err |-> "nil"]

\* sync.Mutex: the goroutine holding it, or Unlocked
Unlocked == 0
Goroutines == {1, 2}
Idle == [at |-> "idle"]

\* the orders in which a range over a map with key set S can visit the keys
RECURSIVE Orders(_)
Orders(S) ==
    IF S = {} THEN {<<>>}
    ELSE UNION {{<<k>> \o o : o \in Orders(S \ {k})} : k \in S}

---------------------------------------------------------------------------
(* Events and their effect on the tracer and on the history variables *)

W(n) == [hi |-> 0, lo |-> n]

StepInput(pc, op, gas, cost, stack, memSize, depth) ==
    [pc |-> pc, op |-> op, gas |-> gas, cost |-> cost, stack |-> stack,
     memSize |-> memSize, depth |-> depth]

OnState(tr, s) == CaptureState(tr, s.pc, s.op, s.gas, s.cost, s.stack, s.memSize, s.depth)

\* what no event handler touches: the results last handed to a reader, the
\* mutex and the goroutines of the concurrent driver, the formatPC driver
aside == <<report, listed, mu, calls, pcs, locations>>

Logged == nEvents' = nEvents + 1 /\ UNCHANGED aside

StartHandled(gas) ==
    /\ t' = CaptureStart(t, gas)
    /\ UNCHANGED <<ended, reads, nSteps, nCallSteps, frames, returned, writes, nMemorySteps,
                 costSum, usageSum, nFaults, lastStep>>

StartEffect(gas) == StartHandled(gas) /\ Logged

StateHandled(s) ==
    /\ t' = OnState(t, s)
    /\ reads' = IF s.op = "SLOAD" /\ Back(s.stack, 0) # Nil
                THEN MapAdd(reads, Back(s.stack, 0), 1) ELSE reads
    /\ nSteps' = nSteps + 1
    /\ nCallSteps' = IF s.op \in CallFamily THEN nCallSteps + 1 ELSE nCallSteps
    /\ writes' = IF s.op = "SSTORE" /\ Back(s.stack, 0) # Nil
                 THEN MapAdd(writes, Back(s.stack, 0), 1) ELSE writes
    /\ nMemorySteps' = IF s.op \in MemoryFamily THEN nMemorySteps + 1 ELSE nMemorySteps
    /\ costSum' = costSum + s.cost
    /\ lastStep' = <<s>>
    /\ UNCHANGED <<ended, frames, returned, usageSum, nFaults>>

StateEffect(s) == StateHandled(s) /\ Logged

EnterHandled ==
    /\ t' = CaptureEnter(t)
    /\ frames' = <<t.Depth>> \o frames
    /\ UNCHANGED <<ended, reads, nSteps, nCallSteps, returned, writes, nMemorySteps,
                 costSum, usageSum, nFaults, lastStep>>

EnterEffect == EnterHandled /\ Logged

ExitHandled(gasUsed) ==
    /\ t' = CaptureExit(t, gasUsed)
    /\ frames' = IF frames = <<>> THEN frames ELSE Tail(frames)
    /\ returned' = IF Len(frames) > returned THEN Len(frames) ELSE returned
    /\ usageSum' = usageSum + gasUsed
    /\ UNCHANGED <<ended, reads, nSteps, nCallSteps, writes, nMemorySteps, costSum,
                 nFaults, lastStep>>

ExitEffect(gasUsed) == ExitHandled(gasUsed) /\ Logged

EndHandled(gasUsed, order) ==
    /\ t' = CaptureEnd(t, gasUsed, order)
    /\ ended' = ended + 1
    /\ UNCHANGED <<reads, nSteps, nCallSteps, frames, returned, writes, nMemorySteps,
                 costSum, usageSum, nFaults, lastStep>>

EndEffect(gasUsed, order) == EndHandled(gasUsed, order) /\ Logged

history ==
    <<ended, reads, nSteps, nCallSteps, frames, returned, writes, nMemorySteps,
      costSum, usageSum, nFaults, lastStep>>

FaultEffect ==
    /\ t' = CaptureFault(t)
    /\ Logged
    /\ nFaults' = nFaults + 1
    /\ UNCHANGED <<ended, reads, nSteps, nCallSteps, frames, returned, writes, nMemorySteps,
                 costSum, usageSum, lastStep>>

TxStartEffect(gasLimit) ==
    /\ t' = CaptureTxStart(t, gasLimit)
    /\ Logged
    /\ UNCHANGED history

TxEndEffect(restGas) ==
    /\ t' = CaptureTxEnd(t, restGas)
    /\ Logged
    /\ UNCHANGED history

GetOptimizationsEffect ==
    /\ listed' = Append(listed, GetOptimizations(t))
    /\ nEvents' = nEvents + 1
    /\ UNCHANGED <<t, history, report, mu, calls, pcs, locations>>

GetReportEffect ==
    /\ report' = Append(report, GetReport(t))
    /\ nEvents' = nEvents + 1
    /\ UNCHANGED <<t, history, listed, mu, calls, pcs, locations>>

Fresh ==
    /\ t = NewGasOptimizationTracer
    /\ run2 = NewGasOptimizationTracer
    /\ nEvents = 0
    /\ ended = 0
    /\ reads = EmptyMap
    /\ nSteps = 0
    /\ nCallSteps = 0
    /\ frames = <<>>
    /\ returned = 0
    /\ writes = EmptyMap
    /\ nMemorySteps = 0
    /\ costSum = 0
    /\ usageSum = 0
    /\ nFaults = 0
    /\ lastStep = <<>>
    /\ report = <<>>
    /\ listed = <<>>
    /\ mu = Unlocked
    /\ calls = [g \in Goroutines |-> Idle]
    /\ locations = <<>>

Init == Fresh /\ pcs = <<>>

---------------------------------------------------------------------------
(* Spec: a driver that delivers up to MaxEvents events in any order, also  *)
(* orders that break the protocol (an Exit without Enter, events after the *)
(* end event).                                                             *)

StartGases == {64, 128}
ExitUsages == {0, 5}
EndTotals == {0, 19, 20, 30}

StepCosts == {2, 3}

AnySteps ==
    {StepInput(42, op, 64, cost, <<>>, 0, depth) :
        op \in {"SLOAD", "MSTORE", "CALL", "CREATE", "ADD"}, cost \in StepCosts, depth \in {1, 2}}
    \cup {StepInput(42, "SLOAD", 64, cost, <<W(1)>>, 0, depth) : cost \in StepCosts, depth \in {1, 2}}
    \cup {StepInput(42, "CALL", 64, cost, <<W(7), W(63)>>, 0, depth) : cost \in StepCosts, depth \in {1, 2}}
    \cup {StepInput(42, "MSTORE", 64, cost, <<>>, 10001, depth) : cost \in StepCosts, depth \in {1, 2}}

Start == nEvents < MaxEvents /\ \E gas \in StartGases : StartEffect(gas) /\ UNCHANGED run2

State == nEvents < MaxEvents /\ \E s \in AnySteps : StateEffect(s) /\ UNCHANGED run2

Enter == nEvents < MaxEvents /\ EnterEffect /\ UNCHANGED run2

Exit == nEvents < MaxEvents /\ \E gasUsed \in ExitUsages : ExitEffect(gasUsed) /\ UNCHANGED run2

End ==
    /\ nEvents < MaxEvents
    /\ \E gasUsed \in EndTotals : \E order \in Orders(DOMAIN t.GasPerOpcode) :
          EndEffect(gasUsed, order) /\ UNCHANGED run2

Next == Start \/ State \/ Enter \/ Exit \/ End

Spec == Init /\ [][Next]_vars

---------------------------------------------------------------------------
(* SpecStorage: a driver that delivers up to MaxStorageSteps storage Steps *)
(* over three slots (one of them wider than 64 bits), with and without the *)
(* key operand.                                                            *)

Wide == [hi |-> 1, lo |-> 1]

KeyStacks == {<<>>, <<W(1)>>, <<W(1), W(2)>>, <<Wide>>}

StorageSteps ==
    {StepInput(42, op, 64, 100, stack, 0, 1) : op \in {"SLOAD", "SSTORE"}, stack \in KeyStacks}
    \cup {StepInput(256, "SLOAD", 64, 100, <<W(1)>>, 10001, 1)}

StorageState ==
    /\ nEvents < MaxStorageSteps
    /\ \E s \in StorageSteps : StateEffect(s) /\ UNCHANGED run2

NextStorage == StorageState

SpecStorage == Init /\ [][NextStorage]_vars

---------------------------------------------------------------------------
(* SpecMemory: a driver that delivers up to MaxMemorySteps Steps of every  *)
(* opcode the handler distinguishes, at memory sizes around the threshold. *)

AllOps ==
    {"SLOAD", "SSTORE", "JUMPDEST", "SELFDESTRUCT", "KECCAK256", "ADD"}
    \cup MemoryFamily \cup CallFamily \cup CreateFamily \cup LogFamily

MemSizes == {0, 10000, 10001, 20000}

MemorySteps ==
    {StepInput(42, op, 64, 3, <<W(7), W(1)>>, memSize, 1) : op \in AllOps, memSize \in MemSizes}
    \cup {StepInput(42, op, 64, 3, <<>>, memSize, 1) :
            op \in {"SLOAD", "SSTORE", "CALL"}, memSize \in MemSizes}

MemoryState ==
    /\ nEvents < MaxMemorySteps
    /\ \E s \in MemorySteps : StateEffect(s) /\ UNCHANGED run2

NextMemory == MemoryState

SpecMemory == Init /\ [][NextMemory]_vars

---------------------------------------------------------------------------
(* SpecTwoRuns: the driver of Spec feeding every event to two tracers; the *)
(* order in which range visits GasPerOpcode is chosen for each of them.    *)

TwoStart ==
    /\ nEvents < MaxEvents
    /\ \E gas \in StartGases : StartEffect(gas) /\ run2' = CaptureStart(run2, gas)

TwoState ==
    /\ nEvents < MaxEvents
    /\ \E s \in AnySteps : StateEffect(s) /\ run2' = OnState(run2, s)

TwoEnter == nEvents < MaxEvents /\ EnterEffect /\ run2' = CaptureEnter(run2)

TwoExit ==
    /\ nEvents < MaxEvents
    /\ \E gasUsed \in ExitUsages : ExitEffect(gasUsed) /\ run2' = CaptureExit(run2, gasUsed)

TwoEnd ==
    /\ nEvents < MaxEvents
    /\ \E gasUsed \in EndTotals :
          \E order \in Orders(DOMAIN t.GasPerOpcode), order2 \in Orders(DOMAIN run2.GasPerOpcode) :
             EndEffect(gasUsed, order) /\ run2' = CaptureEnd(run2, gasUsed, order2)

NextTwoRuns == TwoStart \/ TwoState \/ TwoEnter \/ TwoExit \/ TwoEnd

SpecTwoRuns == Init /\ [][NextTwoRuns]_vars

---------------------------------------------------------------------------
(* SpecCalls: a trace of up to MaxCalls call-family Steps followed by one   *)
(* end event, the k-th Step at pc k: calls that forward a fixed amount,    *)
(* a call that forwards all but one 64th, a call on a large memory and a   *)
(* call without operands.                                                  *)

CallSteps(pc) ==
    { StepInput(pc, "CALL", 64, 1, <<W(7), W(10)>>, 0, 1),
      StepInput(pc, "CALL", 64, 1, <<W(7), W(63)>>, 0, 1),
      StepInput(pc, "STATICCALL", 64, 1, <<W(7), W(10)>>, 0, 1),
      StepInput(pc, "DELEGATECALL", 64, 1, <<W(7), W(10)>>, 10001, 1),
      StepInput(pc, "CALLCODE", 64, 1, <<>>, 0, 1) }

CallEndTotals == {20}

CallState ==
    /\ ended = 0 /\ nCallSteps < MaxCalls
    /\ \E s \in CallSteps(nEvents + 1) : StateEffect(s) /\ UNCHANGED run2

CallsEnd ==
    /\ ended = 0
    /\ \E gasUsed \in CallEndTotals : \E order \in Orders(DOMAIN t.GasPerOpcode) :
          EndEffect(gasUsed, order) /\ UNCHANGED run2

NextCalls == CallState \/ CallsEnd

SpecCalls == Init /\ [][NextCalls]_vars

---------------------------------------------------------------------------
(* SpecNested: a driver that keeps Enter and Exit well nested, up to       *)
(* MaxNest open frames; a Step carries the depth of the frame it runs in   *)
(* (1 for the outermost frame, as CaptureStart leaves Depth = 0 and the    *)
(* interpreter counts frames from 1).                                      *)

NestedEvents == 2 * MaxNest + MaxNestedSteps + 1

FrameDepth == IF frames = <<>> THEN 1 ELSE Head(frames) + 1

NestedSteps == {StepInput(42, op, 64, 1, <<>>, 0, FrameDepth) : op \in {"CALL", "ADD"}}

NestedExitUsages == {5}

NestedStart == nEvents = 0 /\ StartEffect(64) /\ UNCHANGED run2

NestedState ==
    /\ nEvents < NestedEvents /\ nSteps < MaxNestedSteps
    /\ \E s \in NestedSteps : StateEffect(s) /\ UNCHANGED run2

NestedEnter ==
    /\ nEvents < NestedEvents /\ Len(frames) < MaxNest
    /\ EnterEffect /\ UNCHANGED run2

NestedExit ==
    /\ nEvents < NestedEvents /\ frames # <<>>
    /\ \E gasUsed \in NestedExitUsages : ExitEffect(gasUsed) /\ UNCHANGED run2

NextNested == NestedStart \/ NestedState \/ NestedEnter \/ NestedExit

SpecNested == Init /\ [][NextNested]_vars

---------------------------------------------------------------------------
(* SpecAll: every handler of the EVMLogger interface and both readers, in   *)
(* any order.                                                               *)

AllSteps ==
    {StepInput(42, "SLOAD", 64, 2, <<W(1)>>, 0, 1),
     StepInput(42, "SSTORE", 64, 2, <<W(1), W(5)>>, 0, 1),
     StepInput(42, "SSTORE", 64, 2, <<W(2), W(5)>>, 0, 1),
     StepInput(42, "MSTORE", 64, 2, <<>>, 10001, 1),
     StepInput(42, "CALL", 64, 2, <<W(7), W(63)>>, 0, 1),
     StepInput(42, "CREATE", 64, 2, <<>>, 0, 1),
     StepInput(42, "ADD", 64, 2, <<>>, 0, 1)}

AllEndTotals == {0, 19}
TxGasLimits == {128}
RestGases == {0}

AllStart == nEvents < MaxAllEvents /\ StartEffect(64) /\ UNCHANGED run2

AllState == nEvents < MaxAllEvents /\ \E s \in AllSteps : StateEffect(s) /\ UNCHANGED run2

AllEnter == nEvents < MaxAllEvents /\ EnterEffect /\ UNCHANGED run2

AllExit == nEvents < MaxAllEvents /\ ExitEffect(5) /\ UNCHANGED run2

AllFault == nEvents < MaxAllEvents /\ FaultEffect /\ UNCHANGED run2

AllEnd ==
    /\ nEvents < MaxAllEvents
    /\ \E gasUsed \in AllEndTotals : \E order \in Orders(DOMAIN t.GasPerOpcode) :
          EndEffect(gasUsed, order) /\ UNCHANGED run2

AllTxStart ==
    nEvents < MaxAllEvents /\ \E gasLimit \in TxGasLimits : TxStartEffect(gasLimit) /\ UNCHANGED run2

AllTxEnd ==
    nEvents < MaxAllEvents /\ \E restGas \in RestGases : TxEndEffect(restGas) /\ UNCHANGED run2

AllGetOptimizations == nEvents < MaxAllEvents /\ GetOptimizationsEffect /\ UNCHANGED run2

AllGetReport == nEvents < MaxAllEvents /\ GetReportEffect /\ UNCHANGED run2

NextAll ==
    \/ AllStart \/ AllState \/ AllEnter \/ AllExit \/ AllFault \/ AllEnd
    \/ AllTxStart \/ AllTxEnd \/ AllGetOptimizations \/ AllGetReport

SpecAll == Init /\ [][NextAll]_vars

---------------------------------------------------------------------------
(* SpecOperands: Steps of the opcodes that read stack operands, with the    *)
(* operands absent, present, and wider than 64 bits.                        *)

\* 2^64 + 63
WideGas == [hi |-> 1, lo |-> 63]

OperandStacks == {<<>>, <<W(63)>>, <<W(7), W(63)>>, <<W(7), W(10)>>, <<W(7), WideGas>>}

OperandSteps ==
    {StepInput(42, op, 64, 2, stack, 0, 1) :
        op \in {"SLOAD", "SSTORE", "ADD"} \cup CallFamily, stack \in OperandStacks}

OperandState ==
    nSteps < MaxOperandSteps /\ \E s \in OperandSteps : StateEffect(s) /\ UNCHANGED run2

NextOperands == OperandState

SpecOperands == Init /\ [][NextOperands]_vars

---------------------------------------------------------------------------
(* SpecConcurrent: two goroutines call handlers and readers of one tracer.  *)
(* A call of a handler that begins with t.mu.Lock(); defer t.mu.Unlock()    *)
(* takes three steps: it acquires the mutex when no goroutine holds it,     *)
(* runs its body, and releases the mutex on return. CaptureTxStart takes    *)
(* no lock: its body is one step that can happen at any time.               *)

Call(handler, arg) == [handler |-> handler, arg |-> arg]

LockingCalls ==
    {Call("CaptureStart", 64),
     Call("CaptureState", StepInput(42, "SLOAD", 64, 2, <<W(1)>>, 0, 1)),
     Call("CaptureState", StepInput(42, "ADD", 64, 2, <<>>, 0, 1)),
     Call("CaptureEnter", 0),
     Call("CaptureExit", 5),
     Call("CaptureEnd", 19),
     Call("GetOptimizations", 0),
     Call("GetReport", 0)}

\* t.mu.Lock()
LockCall ==
    /\ nEvents < MaxConcurrentCalls
    /\ mu = Unlocked
    /\ \E g \in Goroutines : \E c \in LockingCalls :
          /\ calls[g] = Idle
          /\ calls' = [calls EXCEPT ![g] = [at |-> "locked", call |-> c]]
          /\ mu' = g
    /\ nEvents' = nEvents + 1
    /\ UNCHANGED <<t, run2, history, report, listed, pcs, locations>>

\* the body of the handler, between Lock and the deferred Unlock
RunCall ==
    \E g \in Goroutines :
        /\ calls[g] # Idle /\ calls[g].at = "locked"
        /\ LET c == calls[g].call IN
           \/ c.handler = "CaptureStart" /\ StartHandled(c.arg) /\ UNCHANGED <<report, listed>>
           \/ c.handler = "CaptureState" /\ StateHandled(c.arg) /\ UNCHANGED <<report, listed>>
           \/ c.handler = "CaptureEnter" /\ EnterHandled /\ UNCHANGED <<report, listed>>
           \/ c.handler = "CaptureExit" /\ ExitHandled(c.arg) /\ UNCHANGED <<report, listed>>
           \/ /\ c.handler = "CaptureEnd"
              /\ \E order \in Orders(DOMAIN t.GasPerOpcode) : EndHandled(c.arg, order)
              /\ UNCHANGED <<report, listed>>
           \/ /\ c.handler = "GetOptimizations"
              /\ listed' = Append(listed, GetOptimizations(t))
              /\ UNCHANGED <<t, history, report>>
           \/ /\ c.handler = "GetReport"
              /\ report' = Append(report, GetReport(t))
              /\ UNCHANGED <<t, history, listed>>
        /\ calls' = [calls EXCEPT ![g].at = "deferred"]
        /\ UNCHANGED <<run2, nEvents, mu, pcs, locations>>

\* defer t.mu.Unlock()
UnlockCall ==
    \E g \in Goroutines :
        /\ calls[g] # Idle /\ calls[g].at = "deferred"
        /\ mu' = Unlocked
        /\ calls' = [calls EXCEPT ![g] = Idle]
        /\ UNCHANGED <<t, run2, nEvents, history, report, listed, pcs, locations>>

\* CaptureTxStart: t.Gas = gasLimit, without t.mu.Lock()
UnlockedTxStart ==
    /\ nEvents < MaxConcurrentCalls
    /\ \E g \in Goroutines : calls[g] = Idle
    /\ \E gasLimit \in TxGasLimits : TxStartEffect(gasLimit)
    /\ UNCHANGED run2

NextConcurrent == LockCall \/ RunCall \/ UnlockCall \/ UnlockedTxStart

SpecConcurrent == Init /\ [][NextConcurrent]_vars

---------------------------------------------------------------------------
(* SpecFormat: formatPC applied to two program counters: every small one    *)
(* and the ones around 2^63 and 2^64, each beside a few fixed ones.         *)

EdgePCs ==
    {<<0, 0, 0, 0, 0, 1, 0, 0>>,
     <<0, 0, 0, 0, 255, 255, 255, 255>>,
     <<127, 255, 255, 255, 255, 255, 255, 255>>,
     <<128, 0, 0, 0, 0, 0, 0, 0>>,
     <<128, 0, 0, 0, 0, 0, 0, 1>>,
     <<255, 255, 255, 255, 255, 255, 255, 214>>,
     <<255, 255, 255, 255, 255, 255, 255, 255>>}

FormatPCs == {U64(n) : n \in 0..MaxSmallPC} \cup EdgePCs

ComparedPCs == {U64(0), U64(1), U64(42), U64(255), U64(256)}

InitFormat == Fresh /\ pcs \in FormatPCs \X ComparedPCs

Format ==
    /\ locations = <<>>
    /\ locations' = <<formatPC(pcs[1]), formatPC(pcs[2])>>
    /\ UNCHANGED <<t, run2, nEvents, history, report, listed, mu, calls, pcs>>

NextFormat == Format

SpecFormat == InitFormat /\ [][NextFormat]_vars

---------------------------------------------------------------------------
(* SpecExpensive: Steps of every opcode the handler distinguishes, at costs *)
(* around the thresholds of the LOG and KECCAK256 cases.                    *)

ThresholdCosts == {500, 501, 1000, 1001}

ExpensiveSteps ==
    {StepInput(42, op, 64, cost, <<W(7), W(1)>>, 0, 1) : op \in AllOps, cost \in ThresholdCosts}
    \cup {StepInput(42, op, 64, cost, <<W(7), W(1)>>, 10001, 1) :
            op \in {"CREATE", "LOG1", "KECCAK256"}, cost \in ThresholdCosts}

ExpensiveState ==
    /\ nSteps < MaxExpensiveSteps
    /\ \E s \in ExpensiveSteps : StateEffect(s) /\ UNCHANGED run2

NextExpensive == ExpensiveState

SpecExpensive == Init /\ [][NextExpensive]_vars

---------------------------------------------------------------------------
(* Claims *)

\* the findings appended by the step from the current state to the next
Appended == SubSeq(t'.Optimizations, Len(t.Optimizations) + 1, Len(t'.Optimizations))

OfType(findings, type) == SelectSeq(findings, LAMBDA f : f.Type = type)

Analysed(tr) ==
    <<tr.TotalGasUsed, tr.GasPerOpcode, tr.StorageReads, tr.StorageWrites, tr.MemoryOps,
      tr.CallOps, tr.ExpensiveOps, tr.Depth, tr.Optimizations>>

\* C2: once the end event has been handled, every later event leaves the
\* total, the per-opcode usage, the read/write counts, the operation lists,
\* the depth and the findings unchanged.
LateEventsIgnored == [][ended >= 1 => Analysed(t') = Analysed(t)]_vars

\* C3: the call depth is never negative, whatever events are delivered.
DepthNeverNegative == t.Depth >= 0

UndefinedPercentage(f) ==
    f.Type = "expensive_opcode" /\ f.Details.percentage.den = 0

\* C4: an end event that supplies a total of zero appends no expensive_opcode
\* finding, and no finding carries a percentage that is a division by zero.
ZeroTotalNoHotOpcode ==
    [][(ended' = ended + 1 /\ t'.TotalGasUsed = 0) =>
          /\ OfType(Appended, "expensive_opcode") = <<>>
          /\ \A i \in 1..Len(t'.Optimizations) : ~UndefinedPercentage(t'.Optimizations[i])]_vars

SlotOf(word) == BytesToHash(WordBytes(word))

RedundantSload(n) ==
    /\ Len(OfType(Appended, "redundant_sload")) = 1
    /\ LET f == OfType(Appended, "redundant_sload")[1]
       IN  f.Severity = "high" /\ f.Details.read_count = n /\ f.GasSavings = (n - 1) * 100

\* C1: read counts are kept per slot: the N-th SLOAD Step of a slot sets
\* that slot's count to N and leaves the other counts alone; it appends one
\* high-severity redundant_sload finding with read_count = N and savings
\* (N-1) * 100 when N > 2, and none when N <= 2.  A Step that reads no slot
\* changes no count and appends no such finding.
NthReadCountsN ==
    [][/\ \A k \in DOMAIN reads' :
            MapGet(reads', k) # MapGet(reads, k) =>
                LET n == MapGet(reads', k) IN
                /\ MapGet(t'.StorageReads, SlotOf(k)) = n
                /\ \A h \in (DOMAIN t.StorageReads \cup DOMAIN t'.StorageReads) \ {SlotOf(k)} :
                      MapGet(t'.StorageReads, h) = MapGet(t.StorageReads, h)
                /\ IF n > 2 THEN RedundantSload(n)
                   ELSE OfType(Appended, "redundant_sload") = <<>>
       /\ reads' = reads =>
            /\ t'.StorageReads = t.StorageReads
            /\ OfType(Appended, "redundant_sload") = <<>>]_vars

\* C1 witness: a slot has been read three times (one finding, savings 200)
\* while another slot has been read once
ThreeReadsOneFinding ==
    /\ MapGet(reads, W(1)) = 3 /\ MapGet(reads, Wide) = 1
    /\ Len(OfType(t.Optimizations, "redundant_sload")) = 1
    /\ OfType(t.Optimizations, "redundant_sload")[1].GasSavings = 200

\* C6: a Step of any category whose memory size exceeds 10000 appends
\* exactly one medium-severity memory_expansion finding carrying that size;
\* a Step whose memory size is 10000 or less appends none.
MemoryExpansionEveryTime ==
    [][\A s \in MemorySteps :
          (MapGet(t'.GasPerOpcode, s.op) # MapGet(t.GasPerOpcode, s.op) /\ StateEffect(s)) =>
          LET found == OfType(Appended, "memory_expansion") IN
          IF s.memSize > 10000
          THEN /\ Len(found) = 1
               /\ found[1].Severity = "medium"
               /\ found[1].Details.memory_size = s.memSize
          ELSE found = <<>>]_vars

\* C6 witness: two Steps of different categories and different sizes above
\* the threshold have left two findings
TwoExpansionsTwoFindings ==
    /\ nEvents = 2
    /\ t.PC = 42 /\ Len(t.CallOps) = 1 /\ Len(t.ExpensiveOps) = 1
    /\ Len(OfType(t.Optimizations, "memory_expansion")) = 2
    /\ t.Optimizations[1].Details.memory_size # t.Optimizations[2].Details.memory_size

\* C8: an end event with a positive total T appends, for each mnemonic with
\* cumulative usage g, exactly one medium-severity expensive_opcode finding
\* located "multiple" when 10 * g > T, and none otherwise.
HotOpcodeIffOverTenPercent ==
    [][(ended' = ended + 1 /\ t'.TotalGasUsed > 0) =>
          LET hot == OfType(Appended, "expensive_opcode") IN
          /\ \A i \in 1..Len(hot) :
                /\ hot[i].Severity = "medium"
                /\ hot[i].Location = "multiple"
                /\ hot[i].Details.opcode \in DOMAIN t.GasPerOpcode
          /\ \A m \in DOMAIN t.GasPerOpcode :
                Cardinality({i \in 1..Len(hot) : hot[i].Details.opcode = m})
                    = IF 10 * t.GasPerOpcode[m] > t'.TotalGasUsed THEN 1 ELSE 0]_vars

\* C8 witness: after an end event with total 20, one mnemonic that used 3
\* has a finding and one that used exactly 2 (10% of the total) has none
HotAndNotHot ==
    /\ ended = 1 /\ nEvents = 3 /\ t.TotalGasUsed = 20
    /\ \E m \in DOMAIN t.GasPerOpcode : t.GasPerOpcode[m] = 2
    /\ Len(OfType(t.Optimizations, "expensive_opcode")) = 1
    /\ OfType(t.Optimizations, "expensive_opcode")[1].Details.gas_used > 2

\* C5: the end event of a trace of Steps appends a medium-severity
\* multiple_calls finding iff more than 5 call-family Steps were recorded,
\* with call_count = that number and savings = that number * 2100.
BatchCallsIffMoreThanFive ==
    [][ended' = ended + 1 =>
          LET batch == OfType(Appended, "multiple_calls") IN
          /\ Len(t.CallOps) = nCallSteps
          /\ IF nCallSteps > 5
             THEN /\ Len(batch) = 1
                  /\ batch[1].Severity = "medium"
                  /\ batch[1].Details.call_count = nCallSteps
                  /\ batch[1].GasSavings = nCallSteps * 2100
             ELSE batch = <<>>]_vars

\* C5 witness: six call Steps, then the end event, give savings 12600
SixCallsBatched ==
    /\ ended = 1 /\ nCallSteps = 6
    /\ t.Optimizations[Len(t.Optimizations)].Type = "multiple_calls"
    /\ t.Optimizations[Len(t.Optimizations)].GasSavings = 12600
    /\ t.Optimizations[Len(t.Optimizations)].Details.call_count = 6

StepFindings == {"redundant_sload", "gas_forwarding", "memory_expansion"}

\* the number of the Step that emitted a finding located at loc (the call
\* driver delivers its k-th event at pc k)
StepAt(loc) == CHOOSE k \in 0..MaxCalls : formatPC(U64(k)) = loc

\* C9: in the findings list left by the end event, the findings emitted by
\* Steps are in the order of their Steps and precede every terminal-pass
\* finding; the expensive_opcode findings precede the multiple_calls
\* finding, which is last when present.
FindingsOrdered ==
    ended = 1 =>
        LET f == t.Optimizations IN
        \A i, j \in 1..Len(f) : i < j =>
            /\ f[j].Type \in StepFindings =>
                  /\ f[i].Type \in StepFindings
                  /\ StepAt(f[i].Location) <= StepAt(f[j].Location)
            /\ f[i].Type # "multiple_calls"

\* C9 witness: two Steps have emitted findings, two mnemonics are hot and
\* the calls are batched
StepsThenHotThenBatch ==
    /\ ended = 1
    /\ Len(OfType(t.Optimizations, "gas_forwarding")) >= 1
    /\ Len(OfType(t.Optimizations, "memory_expansion")) >= 1
    /\ Len(OfType(t.Optimizations, "expensive_opcode")) = 2
    /\ Len(OfType(t.Optimizations, "multiple_calls")) = 1

\* C10: two runs of the tracer over the same events leave the same findings
\* in the same order.
SameEventsSameFindings == run2.Optimizations = t.Optimizations

\* C7: an Exit that matches an Enter leaves the depth that held just before
\* that Enter, whatever Steps and nested frames came in between.
ExitRestoresDepth ==
    [][(frames # <<>> /\ frames' = Tail(frames)) => t'.Depth = Head(frames)]_vars

\* C7 witness: ten frames deep and back, with a Step recorded inside the
\* tenth frame
TenDeepAndBack ==
    /\ returned = 10 /\ frames = <<>>
    /\ \E i \in 1..Len(t.CallOps) : t.CallOps[i].Depth >= 10


\* the mnemonics of the expensive_opcode findings among the given findings
HotOpcodes(findings) ==
    {findings[i].Details.opcode :
        i \in {j \in 1..Len(findings) : findings[j].Type = "expensive_opcode"}}

\* C12: right after CaptureEnd(gasUsed) the total is gasUsed, whatever the
\* Steps and Exits had accrued, and the mnemonics reported as expensive are
\* those whose usage exceeds a tenth of gasUsed, with the percentage taken
\* of gasUsed (not of the running total).
EndTotalIsSuppliedValue ==
    [][\A gasUsed \in EndTotals :
          (/\ ended' = ended + 1
           /\ \E order \in Orders(DOMAIN t.GasPerOpcode) : EndEffect(gasUsed, order))
          => /\ t'.TotalGasUsed = gasUsed
             /\ HotOpcodes(Appended)
                  = {m \in DOMAIN t.GasPerOpcode : t.GasPerOpcode[m] > gasUsed \div 10}
             /\ \A i \in 1..Len(Appended) :
                   Appended[i].Type = "expensive_opcode" =>
                       Appended[i].Details.percentage.den = gasUsed]_vars

\* C12 witness: two Steps accrued 5 (every opcode above a tenth of that), then
\* the end event supplied 30: the total is 30 and no opcode is reported
SuppliedTotalReplacesAccrued ==
    /\ ended = 1 /\ nSteps = 2 /\ nEvents = 3
    /\ t.TotalGasUsed = 30
    /\ \A m \in DOMAIN t.GasPerOpcode : t.GasPerOpcode[m] \in {2, 3, 5}
    /\ HotOpcodes(t.Optimizations) = {}

\* C13: the terminal pass runs once per tracer: however many end events are
\* delivered, the list holds at most one expensive_opcode finding per
\* mnemonic and at most one multiple_calls finding.
TerminalFindingsOnce ==
    /\ \A m \in DOMAIN t.GasPerOpcode :
          Cardinality({i \in 1..Len(t.Optimizations) :
                          /\ t.Optimizations[i].Type = "expensive_opcode"
                          /\ t.Optimizations[i].Details.opcode = m}) <= 1
    /\ Len(OfType(t.Optimizations, "multiple_calls")) <= 1

\* C11: the findings list is append-only: over every handler and reader
\* call, the list before the call is a prefix of the list after it.
FindingsAppendOnly ==
    [][/\ Len(t'.Optimizations) >= Len(t.Optimizations)
       /\ SubSeq(t'.Optimizations, 1, Len(t.Optimizations)) = t.Optimizations]_vars

\* C11 witness: a finding recorded by a Step, kept over a Start, an end
\* event that appended another one, and a GetReport
FindingsKeptAcrossCalls ==
    /\ nEvents = 4 /\ ended = 1 /\ Len(report) = 1
    /\ Len(t.Optimizations) = 2
    /\ t.Optimizations[1].Type = "memory_expansion"
    /\ t.Optimizations[2].Type = "expensive_opcode"

Last(seq) == seq[Len(seq)]

\* the findings of a report, read back from the document
ReportedFindings(doc) ==
    [i \in DOMAIN doc.vals.optimizations |->
        [doc.vals.optimizations[i].vals EXCEPT !.Details = @.vals]]

\* C16: in every report storage_reads and storage_writes are the numbers of
\* distinct slots read and written, memory_operations and call_operations
\* the numbers of memory and call-family Steps, expensive_ops the number of
\* recorded expensive operations, and the total, the findings and the
\* per-opcode usage are the tracer's.
ReportCountsDistinctSlots ==
    [][(Len(report') = Len(report) + 1 /\ Last(report').err = "nil") =>
          LET doc == Last(report').text IN
          /\ doc.vals.storage_reads = Cardinality(DOMAIN reads)
          /\ doc.vals.storage_writes = Cardinality(DOMAIN writes)
          /\ doc.vals.memory_operations = nMemorySteps
          /\ doc.vals.call_operations = nCallSteps
          /\ doc.vals.expensive_ops = Len(t.ExpensiveOps)
          /\ doc.vals.total_gas_used = t.TotalGasUsed
          /\ ReportedFindings(doc) = t.Optimizations
          /\ doc.vals.gas_by_opcode.vals = t.GasPerOpcode]_vars

\* C16 witness: a report after two reads of one slot and a memory write
\* says one slot read and one memory operation
TwoReadsOneSlotReported ==
    /\ Len(report) = 1 /\ report[1].err = "nil"
    /\ \E k \in DOMAIN reads : reads[k] = 2
    /\ nMemorySteps = 1
    /\ report[1].text.vals.storage_reads = 1
    /\ report[1].text.vals.memory_operations = 1
    /\ Len(report[1].text.vals.optimizations) = 1

\* C17: a serialized report lists total_gas_used, storage_reads,
\* storage_writes, memory_operations, call_operations, expensive_ops,
\* optimizations, gas_by_opcode in that order, and each entry of
\* optimizations lists type, severity, description, location, gas_savings,
\* details.
ReportFieldOrder ==
    \A i \in 1..Len(report) :
        report[i].err = "nil" =>
            /\ report[i].text.keys =
                 <<"total_gas_used", "storage_reads", "storage_writes", "memory_operations",
                   "call_operations", "expensive_ops", "optimizations", "gas_by_opcode">>
            /\ \A j \in DOMAIN report[i].text.vals.optimizations :
                  report[i].text.vals.optimizations[j].keys =
                      <<"type", "severity", "description", "location", "gas_savings", "details">>

\* C19: GetReport returns a non-empty report and no error in every state,
\* also after an end event that supplied a total of zero.
ReportNeverFails ==
    \A i \in 1..Len(report) : report[i].err = "nil" /\ report[i].text # EmptyText

\* C14: every call-family Step appends exactly one CallOperation, and it
\* appends one low-severity gas_forwarding finding with savings 0 exactly
\* when its forwarded-gas operand, as the full stack word, equals
\* gas - floor(gas / 64).
ForwardingComparesFullWord ==
    [][\A s \in OperandSteps :
          (s.op \in CallFamily /\ StateEffect(s)) =>
              LET forwarding == OfType(Appended, "gas_forwarding") IN
              /\ Len(t'.CallOps) = Len(t.CallOps) + 1
              /\ \A i \in 1..Len(forwarding) :
                    forwarding[i].Severity = "low" /\ forwarding[i].GasSavings = 0
              /\ Len(forwarding) =
                    IF Back(s.stack, 0) = W(s.gas - (s.gas \div 64)) THEN 1 ELSE 0]_vars

\* a Step of an opcode that reads operands the stack does not hold
LacksOperands(s) ==
    \/ s.op \in {"SLOAD", "SSTORE"} /\ Back(s.stack, 0) = Nil
    \/ s.op \in CallFamily /\ (Back(s.stack, 0) = Nil \/ Back(s.stack, 1) = Nil)

\* C15: a storage or call-family Step without its operands changes no read
\* or write count, appends no redundant_sload or gas_forwarding finding, and
\* leaves the tracer as the same Step of an opcode without category would
\* (but for the mnemonic its cost is booked under).
MissingOperandsSkipCategory ==
    [][\A s \in OperandSteps :
          (LacksOperands(s) /\ StateEffect(s)) =>
              /\ t'.StorageReads = t.StorageReads
              /\ t'.StorageWrites = t.StorageWrites
              /\ OfType(Appended, "redundant_sload") = <<>>
              /\ OfType(Appended, "gas_forwarding") = <<>>
              /\ t' = [OnState(t, [s EXCEPT !.op = "ADD"])
                          EXCEPT !.GasPerOpcode = MapAdd(t.GasPerOpcode, s.op, s.cost)]]_vars

\* C18: every write to a field of the tracer is made by the goroutine that
\* holds the mutex, in the body of a handler that locked it.
WritesHoldMutex ==
    [][t' # t =>
          /\ mu # Unlocked
          /\ calls[mu] # Idle /\ calls[mu].at = "locked"
          /\ calls'[mu].at = "deferred"]_vars

\* the value of a lowercase hex digit, 16 for any other character
HexValue(c) ==
    IF \E v \in 0..15 : SubSeq("0123456789abcdef", v + 1, v + 1) = c
    THEN CHOOSE v \in 0..15 : SubSeq("0123456789abcdef", v + 1, v + 1) = c
    ELSE 16

\* the bytes that the hex digits after "0x" spell, two digits a byte
Spelled(loc) ==
    [i \in 1..((Len(loc) - 2) \div 2) |->
        HexValue(SubSeq(loc, 2 * i + 1, 2 * i + 1)) * 16
            + HexValue(SubSeq(loc, 2 * i + 2, 2 * i + 2))]

\* loc is "0x" and the lowercase hex of the minimal big-endian bytes of pc
MinimalHexOf(loc, pc) ==
    /\ SubSeq(loc, 1, 2) = "0x"
    /\ (Len(loc) - 2) % 2 = 0
    /\ \A i \in 3..Len(loc) : HexValue(SubSeq(loc, i, i)) < 16
    /\ Len(Spelled(loc)) <= 8
    /\ Spelled(loc) = <<>> \/ Spelled(loc)[1] # 0
    /\ SetBytes(Spelled(loc), 8) = pc

\* C20: formatPC(pc) is "0x" followed by the lowercase hex of the minimal
\* big-endian bytes of pc ("0x" for 0, "0x2a" for 42, "0xff" for 255,
\* "0x0100" for 256), and distinct pcs get distinct locations.
FormatPCMinimalHex ==
    locations # <<>> =>
        /\ \A i \in 1..2 : MinimalHexOf(locations[i], pcs[i])
        /\ pcs[1] = U64(0) => locations[1] = "0x"
        /\ pcs[1] = U64(42) => locations[1] = "0x2a"
        /\ pcs[1] = U64(255) => locations[1] = "0xff"
        /\ pcs[1] = U64(256) => locations[1] = "0x0100"
        /\ pcs[1] # pcs[2] => locations[1] # locations[2]

\* the sum of the values of a map
RECURSIVE SumOf(_)
SumOf(m) ==
    IF DOMAIN m = {} THEN 0
    ELSE LET k == CHOOSE x \in DOMAIN m : TRUE
         IN  m[k] + SumOf([x \in DOMAIN m \ {k} |-> m[x]])

\* C21: a Step adds its cost to the total and to the usage of its own
\* mnemonic only, an Exit adds its usage to the total only; so before the
\* end event the per-opcode usages sum to the costs of the Steps, and the
\* total is that sum plus the usages of the Exits.
TotalIsCostsPlusExits ==
    [][/\ nSteps' = nSteps + 1 =>
             LET s == lastStep'[1] IN
             /\ t'.TotalGasUsed = t.TotalGasUsed + s.cost
             /\ MapGet(t'.GasPerOpcode, s.op) = MapGet(t.GasPerOpcode, s.op) + s.cost
             /\ \A m \in DOMAIN t'.GasPerOpcode \ {s.op} :
                   m \in DOMAIN t.GasPerOpcode /\ t'.GasPerOpcode[m] = t.GasPerOpcode[m]
       /\ \A gasUsed \in ExitUsages :
             (nSteps' = nSteps /\ ExitEffect(gasUsed)) =>
                 /\ t'.TotalGasUsed = t.TotalGasUsed + gasUsed
                 /\ t'.GasPerOpcode = t.GasPerOpcode
       /\ ended' = 0 =>
             /\ SumOf(t'.GasPerOpcode) = costSum'
             /\ t'.TotalGasUsed = costSum' + usageSum']_vars

\* C21 witness: two Steps of different opcodes and an Exit that reported 5
StepsAndExitSummed ==
    /\ ended = 0 /\ nSteps = 2 /\ usageSum = 5
    /\ Cardinality(DOMAIN t.GasPerOpcode) = 2
    /\ costSum = 5
    /\ t.TotalGasUsed = 10

\* the opcodes whose Steps can record an ExpensiveOperation
ExpensiveFamily == CreateFamily \cup LogFamily \cup {"SELFDESTRUCT", "KECCAK256"}

\* C22: a Step appends one ExpensiveOperation when it is a CREATE, CREATE2
\* or SELFDESTRUCT, a LOG0..LOG4 of cost above 1000, or a KECCAK256 of cost
\* above 500, and none otherwise; a Step of these opcodes appends no
\* finding but memory_expansion.
ExpensiveOpsExactlyWhenListed ==
    [][\A s \in ExpensiveSteps :
          (/\ costSum' = costSum + s.cost /\ s.op \in DOMAIN t'.GasPerOpcode
           /\ StateEffect(s)) =>
              LET recorded ==
                      \/ s.op \in {"CREATE", "CREATE2", "SELFDESTRUCT"}
                      \/ s.op \in {"LOG0", "LOG1", "LOG2", "LOG3", "LOG4"} /\ s.cost >= 1001
                      \/ s.op = "KECCAK256" /\ s.cost >= 501
                  n == Len(t.ExpensiveOps)
              IN  /\ SubSeq(t'.ExpensiveOps, 1, n) = t.ExpensiveOps
                  /\ Len(t'.ExpensiveOps) = IF recorded THEN n + 1 ELSE n
                  /\ recorded =>
                        /\ t'.ExpensiveOps[n + 1].Op = s.op
                        /\ t'.ExpensiveOps[n + 1].Gas = s.cost
                  /\ s.op \in ExpensiveFamily =>
                        \A i \in 1..Len(Appended) : Appended[i].Type = "memory_expansion"]_vars

\* C22 witness: a LOG1 of cost 1000 recorded nothing, a LOG1 of cost 1001
\* was recorded
LogAtAndAboveThreshold ==
    /\ nSteps = 2
    /\ DOMAIN t.GasPerOpcode = {"LOG1"} /\ t.GasPerOpcode["LOG1"] = 2001
    /\ Len(t.ExpensiveOps) = 1
    /\ t.ExpensiveOps[1].Gas = 1001

FaultChangesNothing ==
    [][nFaults' = nFaults + 1 => Analysed(t') = Analysed(t)]_vars

\* C24 witness: two Faults in a trace of a Step that recorded a finding and
\* an end event that recorded another
FaultsAroundTheEnd ==
    /\ nFaults = 2 /\ ended = 1 /\ nSteps = 1 /\ nEvents = 4
    /\ Len(t.Optimizations) = 2
    /\ t.Depth = 1

\* the fields a trace fills in, as a new tracer has them
Emptied(tr) ==
    /\ tr.Optimizations = <<>>
    /\ tr.StorageReads = EmptyMap /\ tr.StorageWrites = EmptyMap
    /\ tr.GasPerOpcode = EmptyMap
    /\ tr.MemoryOps = <<>> /\ tr.CallOps = <<>> /\ tr.ExpensiveOps = <<>>
    /\ tr.TotalGasUsed = 0

\* C25: after CaptureStart or CaptureTxStart the findings, the read and write
\* counts, the per-opcode usage, the operation lists and the total are empty
\* or zero, whatever the tracer had processed before.
StartOpensFreshState ==
    [][(\/ \E gas \in {64} : StartEffect(gas)
        \/ \E gasLimit \in TxGasLimits : TxStartEffect(gasLimit)) => Emptied(t')]_vars

\* C26: after a Step the depth is the depth that the Step carried, whatever
\* Enter and Exit had made of it; an Enter adds one to the depth and an Exit
\* takes one off, so the depth follows Enters minus Exits only between Steps.
StepOverwritesDepth ==
    [][/\ nSteps' = nSteps + 1 => t'.Depth = lastStep'[1].depth
       /\ (nSteps' = nSteps /\ EnterEffect) => t'.Depth = t.Depth + 1
       /\ \A gasUsed \in ExitUsages :
             (nSteps' = nSteps /\ ExitEffect(gasUsed)) => t'.Depth = t.Depth - 1]_vars

\* C26 witness: two frames entered and not left, then a Step that carried
\* depth 1: the depth is 1, not 2
StepDepthReplacesEnters ==
    /\ nEvents = 3 /\ nSteps = 1 /\ Len(frames) = 2
    /\ lastStep[1].depth = 1
    /\ t.Depth = 1
====
